---------------------------- MODULE Spec2Model ----------------------------
(***************************************************************************)
(* Pipeline dependency graph of yagocd: PipelineManager.list() builds one  *)
(* PipelineEntity per raw record of the pipeline_groups response and links *)
(* them with tie_descendants(); PipelineManager.find() searches a freshly  *)
(* listed batch; BaseNode.get_descendants() walks the linked graph.        *)
(*                                                                         *)
(* Python values are modelled as follows.                                  *)
(*   - a raw pipeline record is a TLA+ record; a record "without a name"   *)
(*     is a record whose domain has no "name" field;                       *)
(*   - a material is the record [type, description];                       *)
(*   - an entity lives in the sequence `pipelines`; a reference to the     *)
(*     entity at position k (object identity) is the record [ref |-> k];   *)
(*   - None is the empty set and a value v that may be None is {v}.        *)
(* Every raw record is assumed to carry a `materials` list and every       *)
(* material a `type` and a `description`.                                  *)
(***************************************************************************)
EXTENDS Integers, Sequences, FiniteSets, TLC

\* Largest number of raw pipeline records in one response.
MaxPipelines == 3

\* Largest number of material entries in one response (all records together).
MaxMaterials == 2

\* Pipeline names the server may use.
Names == {"P1", "P2", "P3"}

\* Names of the pipeline groups of a response, in server order.
GroupNames == <<"G1", "G2">>

None == {}

Some(v) == {v}

Get(opt) == CHOOSE v \in opt : TRUE

Ref(k) == [ref |-> k]

Range(s) == {s[k] : k \in DOMAIN s}

-----------------------------------------------------------------------------
(* The inputs: responses of GET {base_api}/config/pipeline_groups.         *)

\* A Pipeline material naming any pipeline, and a source-control material
\* whose description happens to read like a pipeline name.
MaterialValues ==
    {[type |-> "Pipeline", description |-> n] : n \in Names}
        \cup {[type |-> "Git", description |-> "P1"]}

\* Material lists of at most k entries.
MaterialLists(k) == UNION {[1..m -> MaterialValues] : m \in 0..k}

\* Raw records with at most k materials, with and without a name field.
RawRecords(k) ==
    {[name |-> n, materials |-> ms] : n \in Names, ms \in MaterialLists(k)}
        \cup {[materials |-> ms] : ms \in MaterialLists(k)}

RECURSIVE TotalMaterials(_)
TotalMaterials(b) ==
    IF b = <<>> THEN 0 ELSE Len(Head(b).materials) + TotalMaterials(Tail(b))

RECURSIVE Splits(_, _)
\* The ways to cut the sequence b into k consecutive (possibly empty) parts.
Splits(b, k) ==
    IF k = 0 THEN (IF b = <<>> THEN {<<>>} ELSE {})
    ELSE UNION {{<<SubSeq(b, 1, s)>> \o rest :
                    rest \in Splits(SubSeq(b, s + 1, Len(b)), k - 1)} :
                    s \in 0..Len(b)}

Grouped(parts) ==
    [k \in 1..Len(parts) |-> [name |-> GroupNames[k], pipelines |-> parts[k]]]

-----------------------------------------------------------------------------
VARIABLES
    response,     \* response.json() of the running list() call
    pipelines,    \* the local list `pipelines` of list(): the entities
    pc,           \* where the caller is
    g,            \* list(): index of the group being read
    p,            \* list(): index of the next record within group g
    i,            \* tie_descendants(): index of `pipeline` in the outer loop
    target,       \* find(): the requested name, None outside find()
    found,        \* find(): what it returned, None before
    walked,       \* the last get_descendants(transitive=True) call and result
    assigned      \* per entity, how often its descendants setter has run

vars == <<response, pipelines, pc, g, p, i, target, found, walked, assigned>>

\* A variant of PipelineEntity that starts with an empty descendants list, as
\* BaseNode.__init__ does.
PipelineEntity_with_list(data, group) ==
    [data |-> data, group |-> group, descendants |-> Some(<<>>)]

\* PipelineEntity.__init__: descendants defaults to None.
PipelineEntity(data, group) ==
    [data |-> data, group |-> group, descendants |-> None]

\* A variant of list_append that puts the new entity in front.
list_insert_front(list, item) == <<item>> \o list

\* list(): pipelines.append(pipeline).
list_append(list, item) == Append(list, item)

\* A variant of predecessors that keeps only the Pipeline materials whose
\* description names an entity constructed so far.
predecessors_resolved(self) ==
    SelectSeq(self.data.materials,
              LAMBDA material :
                  /\ material.type = "Pipeline"
                  /\ \E k \in 1..Len(pipelines) :
                        /\ "name" \in DOMAIN pipelines[k].data
                        /\ pipelines[k].data.name = material.description)

\* PipelineEntity.predecessors: the materials of type 'Pipeline'.
predecessors(self) ==
    SelectSeq(self.data.materials, LAMBDA material : material.type = "Pipeline")

\* PipelineEntity.descendants (getter): self._descendants, which must be set.
descendants(self) == Get(self.descendants)

HasName(self) == "name" \in DOMAIN self.data

RECURSIVE Repeat(_, _)
Repeat(v, n) == IF n = 0 THEN <<>> ELSE <<v>> \o Repeat(v, n - 1)

\* The `if` of tie_descendants: material.description == pipeline.data.name.
TieMatch(material, pipeline) == material.description = pipeline.data.name

RECURSIVE TieCandidates(_, _, _)
\* The two inner loops of tie_descendants for one `pipeline`: candidates from
\* position c on, each appended once per matching material.
TieCandidates(ps, pipeline, c) ==
    IF c > Len(ps) THEN <<>>
    ELSE Repeat(Ref(c),
                Len(SelectSeq(predecessors(ps[c]),
                              LAMBDA material : TieMatch(material, pipeline))))
             \o TieCandidates(ps, pipeline, c + 1)

\* pipeline.data.name raises AttributeError as soon as it is evaluated, which
\* is at the first material of any candidate's predecessors.
TieRaises(ps, pipeline) ==
    /\ ~HasName(pipeline)
    /\ \E c \in 1..Len(ps) : predecessors(ps[c]) # <<>>

\* Position of the next record to read: exhausted groups are skipped.
RECURSIVE Advance(_, _, _)
Advance(resp, gi, pi) ==
    IF gi > Len(resp) THEN <<gi, 1>>
    ELSE IF pi > Len(resp[gi].pipelines) THEN Advance(resp, gi + 1, 1)
    ELSE <<gi, pi>>

RECURSIVE depth_walk(_, _, _)
\* The walk with `todo` still to visit and `out` visited so far, in order.
depth_walk(todo, out, near_nodes) ==
    IF todo = <<>> THEN out
    ELSE IF Head(todo) \in Range(out) THEN depth_walk(Tail(todo), out, near_nodes)
    ELSE depth_walk(near_nodes[Head(todo)] \o Tail(todo),
                    Append(out, Head(todo)),
                    near_nodes)

\* YagocdUtil.graph_depth_walk(root_nodes, near_nodes): depth-first pre-order
\* from the start sequence; a node already in the output is not expanded again.
\* The accessor near_nodes is a function from nodes to their neighbour lists.
graph_depth_walk(root_nodes, near_nodes) == depth_walk(root_nodes, <<>>, near_nodes)

\* BaseNode.get_descendants(transitive) on the entity `self` of the batch ps.
get_descendants(ps, self, transitive) ==
    LET result == descendants(self)
    IN IF transitive
       THEN graph_depth_walk(result,
                             [v \in {Ref(k) : k \in 1..Len(ps)} |-> descendants(ps[v.ref])])
       ELSE result

RECURSIVE FindLastFrom(_, _, _)
\* A variant of FindFrom that keeps looking and prefers a later match.
FindLastFrom(ps, name, k) ==
    IF k > Len(ps) THEN [raises |-> FALSE, value |-> None]
    ELSE IF ~HasName(ps[k]) THEN [raises |-> TRUE, value |-> None]
    ELSE LET later == FindLastFrom(ps, name, k + 1)
         IN IF later.raises \/ later.value # None \/ ps[k].data.name # name
            THEN later
            ELSE [raises |-> FALSE, value |-> Some(Ref(k))]

RECURSIVE FindFrom(_, _, _)
\* The loop of find() from position k on: the first entity whose data.name is
\* `name`, None at the end of the list, AttributeError at a record without name.
FindFrom(ps, name, k) ==
    IF k > Len(ps) THEN [raises |-> FALSE, value |-> None]
    ELSE IF ~HasName(ps[k]) THEN [raises |-> TRUE, value |-> None]
    ELSE IF ps[k].data.name = name THEN [raises |-> FALSE, value |-> Some(Ref(k))]
    ELSE FindFrom(ps, name, k + 1)

Idle ==
    /\ response = <<>>
    /\ pipelines = <<>>
    /\ pc = "idle"
    /\ g = 1
    /\ p = 1
    /\ i = 1
    /\ target = None
    /\ found = None
    /\ walked = None
    /\ assigned = <<>>

Init == Idle

\* list(): the request is answered and the local list is created.
ListCall ==
    /\ pc = "idle"
    /\ \E n \in 0..MaxPipelines : \E b \in [1..n -> RawRecords(MaxMaterials)] :
          /\ TotalMaterials(b) <= MaxMaterials
          /\ \E k \in 0..Len(GroupNames) : \E parts \in Splits(b, k) :
                /\ response' = Grouped(parts)
                /\ g' = Advance(Grouped(parts), 1, 1)[1]
                /\ p' = Advance(Grouped(parts), 1, 1)[2]
    /\ pipelines' = <<>>
    /\ pc' = "list"
    /\ UNCHANGED <<i, target, found, walked, assigned>>

\* list(): one pass of the inner construction loop.
Construct ==
    /\ pc = "list"
    /\ g <= Len(response)
    /\ pipelines' = list_append(pipelines,
                                PipelineEntity(response[g].pipelines[p],
                                               response[g].name))
    /\ g' = Advance(response, g, p + 1)[1]
    /\ p' = Advance(response, g, p + 1)[2]
    /\ assigned' = Append(assigned, 0)
    /\ UNCHANGED <<response, pc, i, target, found, walked>>

\* tie_descendants(): one pass of the outer loop, for pipelines[i].
Tie ==
    /\ pc = "list"
    /\ g > Len(response)
    /\ i <= Len(pipelines)
    /\ IF TieRaises(pipelines, pipelines[i])
       THEN /\ pc' = "raised"
            /\ UNCHANGED <<pipelines, i, assigned>>
       ELSE /\ pipelines' = [pipelines EXCEPT
                                ![i].descendants =
                                    Some(TieCandidates(pipelines, pipelines[i], 1))]
            /\ assigned' = [assigned EXCEPT ![i] = @ + 1]
            /\ i' = i + 1
            /\ pc' = pc
    /\ UNCHANGED <<response, g, p, target, found, walked>>

\* list(): tie_descendants() is over, `return pipelines`.
ListReturn ==
    /\ pc = "list"
    /\ g > Len(response)
    /\ i > Len(pipelines)
    /\ pc' = "returned"
    /\ UNCHANGED <<response, pipelines, g, p, i, target, found, walked, assigned>>

\* find(name): self.list() has returned `pipelines` (the steps above; an error
\* of list() is the state "raised"), and the loop over them runs. Nothing is
\* walked between the return of list() and the loop.
Find ==
    /\ pc = "returned"
    /\ walked = None
    /\ \E name \in Names :
          /\ target' = Some(name)
          /\ IF FindFrom(pipelines, name, 1).raises
             THEN /\ pc' = "find_raised"
                  /\ found' = None
             ELSE /\ pc' = "find_returned"
                  /\ found' = Some(FindFrom(pipelines, name, 1).value)
    /\ UNCHANGED <<response, pipelines, g, p, i, walked, assigned>>

\* entity.get_descendants(transitive=True) on an entity of the returned batch.
GetDescendants ==
    /\ pc = "returned"
    /\ \E x \in 1..Len(pipelines) :
          walked' = Some([node |-> x,
                          result |-> get_descendants(pipelines, pipelines[x], TRUE)])
    /\ UNCHANGED <<response, pipelines, pc, g, p, i, target, found, assigned>>

\* The caller drops the batch; the next call starts from scratch.
Discard ==
    /\ pc \in {"returned", "raised", "find_returned", "find_raised"}
    /\ response' = <<>>
    /\ pipelines' = <<>>
    /\ pc' = "idle"
    /\ g' = 1
    /\ p' = 1
    /\ i' = 1
    /\ target' = None
    /\ found' = None
    /\ walked' = None
    /\ assigned' = <<>>

Next ==
    \/ ListCall
    \/ Construct
    \/ Tie
    \/ ListReturn
    \/ Find
    \/ GetDescendants
    \/ Discard

Spec == Init /\ [][Next]_vars

-----------------------------------------------------------------------------
(* Vocabulary of the properties.                                           *)

Nodes == 1..Len(pipelines)

\* list() has returned `pipelines` (find() and the walks keep them).
Built == pc \in {"returned", "find_returned", "find_raised"}

RECURSIVE Offset(_)
\* Number of raw records of the response in the groups before group k.
Offset(k) == IF k <= 1 THEN 0 ELSE Offset(k - 1) + Len(response[k - 1].pipelines)

\* The raw records of the response as (group index, index in group) pairs.
Fetched ==
    UNION {{<<k, q>> : q \in 1..Len(response[k].pipelines)} : k \in 1..Len(response)}

NamesOfBatch == {pipelines[k].data.name : k \in {n \in Nodes : HasName(pipelines[n])}}

\* y lists x as a predecessor by name equality.
ListsByName(y, x) ==
    /\ HasName(pipelines[x])
    /\ \E k \in 1..Len(predecessors(pipelines[y])) :
          predecessors(pipelines[y])[k].description = pipelines[x].data.name

NoDuplicates(s) == \A a, b \in 1..Len(s) : s[a] = s[b] => a = b

RECURSIVE Closure(_)
\* Fixed point of unioning the direct descendants of the nodes of S into S.
Closure(S) ==
    LET more == S \cup UNION {{r.ref : r \in Range(descendants(pipelines[n]))} : n \in S}
    IN IF more = S THEN S ELSE Closure(more)

StrictDescendants(x) ==
    Closure({r.ref : r \in Range(descendants(pipelines[x]))}) \ {x}

PipelineMaterial(n) == [type |-> "Pipeline", description |-> n]

-----------------------------------------------------------------------------
\* C1: after list() returns, for all nodes X and Y of the batch, Y is a member
\* of X.descendants if and only if X is a member of Y.predecessors.
C1_Symmetry ==
    pc = "returned" =>
        \A x, y \in Nodes :
            (Ref(y) \in Range(descendants(pipelines[x])))
                <=> (Ref(x) \in Range(predecessors(pipelines[y])))

\* C2: the transitive descendants of a node X are a duplicate-free sequence
\* whose elements are exactly the fixed point of unioning direct descendants
\* starting from X, X itself excluded.
C2_ClosureCorrectness ==
    walked # None =>
        LET w == Get(walked)
        IN /\ NoDuplicates(w.result)
           /\ Range(w.result) = {Ref(k) : k \in StrictDescendants(w.node)}

\* C3: for two nodes with mutual edges A->B and B->A, the transitive traversal
\* from A ends and returns exactly the single node B.
C3_CycleSafety ==
    (/\ walked # None
     /\ Len(pipelines) = 2
     /\ pipelines[1].data = [name |-> "P1", materials |-> <<PipelineMaterial("P2")>>]
     /\ pipelines[2].data = [name |-> "P2", materials |-> <<PipelineMaterial("P1")>>]
     /\ Get(walked).node = 1)
        => Get(walked).result = <<Ref(2)>>

\* C4: a Pipeline material of P whose description is the name of no pipeline of
\* the batch is not in P.predecessors, gives P no descendant edge, and the
\* build raises no error on its account.
C4_DanglingReference ==
    /\ pc = "raised" => \E k \in Nodes : ~HasName(pipelines[k])
    /\ pc = "returned" =>
          \A y \in Nodes :
              /\ \A k \in 1..Len(pipelines[y].data.materials) :
                    LET material == pipelines[y].data.materials[k]
                    IN (material.type = "Pipeline"
                            /\ material.description \notin NamesOfBatch)
                          => material \notin Range(predecessors(pipelines[y]))
              /\ \A x \in Nodes :
                    Ref(y) \in Range(descendants(pipelines[x])) => ListsByName(y, x)

\* C5: a batch with a raw record that has no name field never comes back from
\* list() as a node sequence: every returned node has a name.
C5_MissingNameFailsFast ==
    Built => \A k \in Nodes : HasName(pipelines[k])

\* C6: list() returns one node per raw record of the response, groups in
\* server order and records in server order within a group, each node with
\* the data of its record and the name of its group; linking keeps this.
C6_FetchOrder ==
    (pc # "idle" /\ g > Len(response)) =>
        /\ Len(pipelines) = Cardinality(Fetched)
        /\ \A kq \in Fetched :
              /\ pipelines[Offset(kq[1]) + kq[2]].data = response[kq[1]].pipelines[kq[2]]
              /\ pipelines[Offset(kq[1]) + kq[2]].group = response[kq[1]].name

\* A batch fetched as two groups, two records in the first, linked and
\* returned, with an edge from the second group into the first.
C6_Witness ==
    /\ pc = "returned"
    /\ Len(response) = 2
    /\ Len(response[1].pipelines) = 2
    /\ Len(response[2].pipelines) = 1
    /\ response[1].pipelines[1] # response[1].pipelines[2]
    /\ descendants(pipelines[2]) = <<Ref(3)>>

\* C7: for the batch [P1 without materials, P2 with the Pipeline material P1,
\* P3 with the Pipeline material P2], P1.descendants = [P2], P2.descendants =
\* [P3], P3.predecessors = [P2] (the node) and the transitive descendants of
\* P1 are [P2, P3].
C7_ChainScenario ==
    (/\ walked # None
     /\ Get(walked).node = 1
     /\ Len(pipelines) = 3
     /\ pipelines[1].data = [name |-> "P1", materials |-> <<>>]
     /\ pipelines[2].data = [name |-> "P2", materials |-> <<PipelineMaterial("P1")>>]
     /\ pipelines[3].data = [name |-> "P3", materials |-> <<PipelineMaterial("P2")>>])
        => /\ descendants(pipelines[1]) = <<Ref(2)>>
           /\ descendants(pipelines[2]) = <<Ref(3)>>
           /\ predecessors(pipelines[3]) = <<Ref(2)>>
           /\ Get(walked).result = <<Ref(2), Ref(3)>>

\* C8: find(name) returns the first entity in fetch order of the freshly
\* listed and linked batch whose data.name is the requested name, returns
\* None when no entity has that name, and never an entity of another name;
\* it raises only for a batch with a record that has no name.
C8_Find ==
    /\ pc = "find_raised" => \E k \in Nodes : ~HasName(pipelines[k])
    /\ pc = "find_returned" =>
          LET name == Get(target)
              value == Get(found)
              matching == {k \in Nodes : HasName(pipelines[k])
                                           /\ pipelines[k].data.name = name}
          IN /\ \A k \in Nodes : pipelines[k].descendants # None
             /\ value = None <=> matching = {}
             /\ value # None =>
                   /\ Get(value).ref \in matching
                   /\ \A k \in matching : Get(value).ref <= k

\* find() returned the first of two entities that share the requested name.
C8_Witness ==
    /\ pc = "find_returned"
    /\ found = Some(Some(Ref(1)))
    /\ Len(pipelines) = 3
    /\ HasName(pipelines[3])
    /\ pipelines[3].data.name = Get(target)
    /\ HasName(pipelines[2])
    /\ pipelines[2].data.name # Get(target)

\* C9: after tie_descendants, X.descendants is the subsequence of the batch,
\* in batch order and each node once, of the nodes that list X as a
\* predecessor by name equality.
C9_PairwiseInversion ==
    pc = "returned" =>
        \A x \in Nodes :
            descendants(pipelines[x])
                = SelectSeq([k \in Nodes |-> Ref(k)], LAMBDA r : ListsByName(r.ref, x))

RECURSIVE OfTypePipeline(_)
\* The entries of a material list whose type is 'Pipeline', in list order.
OfTypePipeline(materials) ==
    IF materials = <<>> THEN <<>>
    ELSE IF Head(materials).type = "Pipeline"
         THEN <<Head(materials)>> \o OfTypePipeline(Tail(materials))
         ELSE OfTypePipeline(Tail(materials))

C11_LinkingLifecycle ==
    /\ Len(assigned) = Len(pipelines)
    /\ \A k \in Nodes :
          /\ assigned[k] <= 1
          /\ assigned[k] = 0 <=> pipelines[k].descendants = None
          /\ assigned[k] = 1 => Len(pipelines) = Cardinality(Fetched)
    /\ (pc = "list" /\ g <= Len(response)) =>
          \A k \in Nodes : assigned[k] = 0
    /\ Built =>
          /\ Len(pipelines) = Cardinality(Fetched)
          /\ \A k \in Nodes : assigned[k] = 1 /\ pipelines[k].descendants # None
    /\ Fetched = {} => pc # "raised" /\ pipelines = <<>>

\* list() has returned a batch of three entities fetched as two groups, each
\* assigned once, one with a descendant and the others with an empty list.
C11_Witness ==
    /\ pc = "returned"
    /\ Len(response) = 2
    /\ Len(pipelines) = 3
    /\ \A k \in Nodes : assigned[k] = 1
    /\ pipelines[1].descendants = Some(<<Ref(3)>>)
    /\ pipelines[2].descendants = Some(<<>>)
    /\ pipelines[3].descendants = Some(<<>>)

=============================================================================
